---- MODULE Spec2Model ----
(***************************************************************************)
(* Model of the dev.to / GitHub fetch-and-merge routines of                *)
(* src/src/api_client.py and src/src/github_client.py.                     *)
(*                                                                         *)
(* One behaviour is one call of one routine.  A network-calling routine    *)
(* runs request by request: every HTTP response (status and decoded body)  *)
(* and every transport exception is chosen by the environment.  The        *)
(* backoff decorator re-invokes the whole routine after a transport        *)
(* exception, so the routine's locals are rebuilt on every attempt.        *)
(***************************************************************************)
EXTENDS Integers, Sequences, FiniteSets, TLC

VARIABLES
    routine,    \* the routine the caller invoked
    pc,         \* "request" | "sleep" | "backoff" | "select" | "rows" | "returned" | "raised"
    tries,      \* backoff's attempt counter (1 on the first attempt)
    page,       \* local `page` of the paginated routines
    items,      \* local list `articles` / `followers` of the two table loaders
    lists,      \* the accumulator locals of get_user_articles_summary
    result,     \* the value handed to the caller
    reqs,       \* history: page index of every request of the current attempt
    resps,      \* history: every response of the current attempt
    sleeps,     \* history: argument of every time.sleep of the routine body, current attempt
    followers_df, \* the table object the caller passed to an enrichment routine
    df_in,      \* history: the value of that table when the call began
    work,       \* the table / column lists an enrichment routine is building
    rowi,       \* position of the enrichment loop: rows handled so far
    filter_connected_profiles, \* the flag passed to update_with_github
    lookups,    \* history: per handled row, the key looked up and what the lookup gave
    server      \* the remote side: whether its pages are fixed, and the pages if so

vars == <<routine, pc, tries, page, items, lists, result, reqs, resps, sleeps,
          followers_df, df_in, work, rowi, filter_connected_profiles, lookups,
          server>>

callVars == <<tries, page, items, lists, reqs, resps, sleeps>>
tableVars == <<followers_df, df_in, work, rowi, filter_connected_profiles, lookups>>

-----------------------------------------------------------------------------
(* Bounds of the model *)

MaxPageLen == 2     \* items in one page of a response
MaxReq == 3         \* requests issued within one attempt
MaxRows == 2        \* rows of the table handed to an enrichment routine
MaxArticles == 2    \* articles in a summary handed to update_followers_with_articles

(* @backoff.on_exception(..., max_tries=5) *)
max_tries == 5

-----------------------------------------------------------------------------
(* Python values *)

None == "None"

\* dict.get(key) / dict.get(key, default)
Get(d, k) == IF k \in DOMAIN d THEN d[k] ELSE None
GetOr(d, k, default) == IF k \in DOMAIN d THEN d[k] ELSE default

EmptyDict == [k \in {} |-> None]

\* the elements of a list, as a set
Elems(s) == {s[i] : i \in 1..Len(s)}

\* all lists over S of length lo..hi
SeqsOf(S, lo, hi) == UNION {[1..n -> S] : n \in lo..hi}

NoValue == [kind |-> "pending"]
NoneValue == [kind |-> "None"]
DictValue(d) == [kind |-> "dict", val |-> d]
FrameValue(rows) == [kind |-> "frame", val |-> rows]
TupleValue(t) == [kind |-> "tuple", val |-> t]
\* the call ended by raising exception `exc` to the caller
Raised(exc) == [kind |-> "raise", exc |-> exc]

NaN == "NaN"

\* dict.update(other): other's entries win
Update(d, other) ==
    [k \in DOMAIN d \cup DOMAIN other |-> IF k \in DOMAIN other THEN other[k] ELSE d[k]]

\* pd.DataFrame(list_of_dicts): one row per dict, in order; the columns are all the
\* keys met, and a key a dict lacks is NaN in its row
DataFrame(dicts) ==
    LET columns == UNION {DOMAIN dicts[i] : i \in 1..Len(dicts)}
    IN  [i \in 1..Len(dicts) |->
            [c \in columns |-> IF c \in DOMAIN dicts[i] THEN dicts[i][c] ELSE NaN]]

\* df[col] = values: the column is set (or added) row by row, by position
AssignColumn(df, col, values) == [i \in 1..Len(df) |-> Update(df[i], col :> values[i])]

\* Series.notna()
notna(v) == v # None /\ v # NaN

-----------------------------------------------------------------------------
(* What the servers can send *)

\* dev.to article objects (articles/me and articles?username=...)
Article1 ==
    [title |-> "t1", published_at |-> "d1", public_reactions_count |-> "r1",
     tag_list |-> <<"py", "ai">>, reading_time_minutes |-> "m1",
     comments_count |-> "c1", positive_reactions_count |-> "p1"]
\* an article object without tag_list, reading_time_minutes, comments_count
Article2 ==
    [title |-> "t2", published_at |-> "d2", public_reactions_count |-> "r2",
     positive_reactions_count |-> "p2"]
ArticleObjects == {Article1, Article2}

\* dev.to follower objects (followers/users)
Follower1 == [username |-> "u1", name |-> "n1", category |-> "Connected Profiles"]
Follower2 == [username |-> "u2", name |-> "n2", category |-> "Other"]
FollowerObjects == {Follower1, Follower2}

\* dev.to user objects (users/by_username)
User1 ==
    [id |-> "i1", name |-> "N1", twitter_username |-> "tw1", github_username |-> "gh1",
     summary |-> "s1", location |-> "l1", website_url |-> "w1", joined_at |-> "j1",
     profile_image |-> "img1"]
User2 == [id |-> "i2", name |-> "N2", github_username |-> None]
UserObjects == {User1, User2}

\* GitHub user objects (api.github.com/users/...)
GitHub1 ==
    [login |-> "gh1", created_at |-> "gc1", updated_at |-> "gu1", public_repos |-> "7"]
GitHub2 == [login |-> "gh2", created_at |-> "gc2"]
GitHubObjects == {GitHub1, GitHub2, EmptyDict}

\* dev.to profile pages (dev.to/<username>/), as the scraper sees them: the
\* badge_text_content elements with the title / description sub-elements they
\* hold, and the numbers of the "comments written" and "tags followed" lines
Profile1 ==
    [badges |-> <<[title |-> "b1", description |-> "bd1"],
                  [title |-> "b2", description |-> "bd2"]>>,
     comments_written |-> 5, tags_followed |-> 3]
\* a page without badges and without the two lines
Profile2 == [badges |-> <<>>]
\* a page with a badge element that holds no description sub-element
Profile3 == [badges |-> <<[title |-> "b1"]>>, comments_written |-> 5]
ProfilePages == {Profile1, Profile2, Profile3}

Collectors ==
    {"load_articles_to_dataframe", "load_followers_to_dataframe",
     "get_user_articles_summary"}
DetailLookups == {"get_user_details", "get_github_user"}
Enrichments ==
    {"load_users_with_details", "update_followers_with_articles",
     "update_followers_with_stats", "update_with_github"}

\* the decoded JSON bodies a 200 response to routine r can carry
Bodies(r) ==
    CASE r = "load_followers_to_dataframe" -> SeqsOf(FollowerObjects, 0, MaxPageLen)
      [] r = "get_user_details" -> UserObjects
      [] r = "get_github_user" -> GitHubObjects
      [] r = "get_user_stats" -> ProfilePages
      [] OTHER -> SeqsOf(ArticleObjects, 0, MaxPageLen)

\* statuses other than 200 and 429
ErrorStatuses == {404, 500}

Response(s, b) == [status |-> s, body |-> b]

-----------------------------------------------------------------------------
(* The routine bodies, as pure steps on their locals *)

\* list.extend(data)
Extend(list, data) == list \o data

\* a page counter that is never advanced
NextPage_Stuck(p) == p

\* page += 1
NextPage(p) == p + 1

\* the dict built per article by load_articles_to_dataframe
ArticleRow(article) ==
    [title |-> article["title"], created_at |-> article["published_at"],
     public_reactions_count |-> article["public_reactions_count"]]

ArticleRows(data) == [i \in 1..Len(data) |-> ArticleRow(data[i])]

\* the accumulator locals of get_user_articles_summary, as first assigned
EmptyLists ==
    [article_titles |-> <<>>, article_reading_time_minutes |-> <<>>,
     unique_tags |-> {}, article_comments_counts |-> <<>>,
     article_positive_reactions_counts |-> <<>>, article_published_at |-> <<>>,
     tags |-> <<>>]

\* a pass that appends to `tags` only when the article carries a tag_list
AppendArticle_TagsIfPresent(l, article) ==
    [l EXCEPT
        !.article_titles = Append(@, Get(article, "title")),
        !.unique_tags = @ \cup Elems(GetOr(article, "tag_list", <<>>)),
        !.tags = IF "tag_list" \in DOMAIN article THEN Append(@, article["tag_list"]) ELSE @,
        !.article_reading_time_minutes = Append(@, Get(article, "reading_time_minutes")),
        !.article_comments_counts = Append(@, Get(article, "comments_count")),
        !.article_published_at = Append(@, Get(article, "published_at")),
        !.article_positive_reactions_counts =
            Append(@, Get(article, "positive_reactions_count"))]

\* one pass of `for article in articles`
AppendArticle(l, article) ==
    [article_titles |-> Append(l.article_titles, Get(article, "title")),
     unique_tags |-> l.unique_tags \cup Elems(GetOr(article, "tag_list", <<>>)),
     tags |-> Append(l.tags, GetOr(article, "tag_list", <<>>)),
     article_reading_time_minutes |->
         Append(l.article_reading_time_minutes, Get(article, "reading_time_minutes")),
     article_comments_counts |->
         Append(l.article_comments_counts, Get(article, "comments_count")),
     article_published_at |->
         Append(l.article_published_at, Get(article, "published_at")),
     article_positive_reactions_counts |->
         Append(l.article_positive_reactions_counts,
                Get(article, "positive_reactions_count"))]

RECURSIVE AppendArticles(_, _)
AppendArticles(l, articles) ==
    IF articles = <<>> THEN l
    ELSE AppendArticles(AppendArticle(l, Head(articles)), Tail(articles))

\* list(a_set): the elements once each, in an order the code does not choose
ListsOfSet(S) == {s \in [1..Cardinality(S) -> S] : Elems(s) = S}

\* the dict returned after the loop of get_user_articles_summary
SummaryDict(l, tag_order) ==
    [article_count |-> Len(l.article_titles),
     article_titles |-> l.article_titles,
     unique_tags |-> tag_order,
     tags |-> l.tags,
     article_reading_time_minutes |-> l.article_reading_time_minutes,
     article_comments_counts |-> l.article_comments_counts,
     article_positive_reactions_counts |-> l.article_positive_reactions_counts,
     article_published_at |-> l.article_published_at]

\* an else branch that hands back what the loop has gathered
FailedSummary_Partial(l) ==
    SummaryDict(l, CHOOSE tag_order \in ListsOfSet(l.unique_tags) : TRUE)

\* the dict returned by the else branch of get_user_articles_summary
FailedSummary(l) ==
    [article_count |-> 0, article_titles |-> <<>>, unique_tags |-> <<>>,
     tags |-> <<>>, article_reading_time_minutes |-> <<>>,
     article_comments_counts |-> <<>>, article_positive_reactions_counts |-> <<>>,
     article_published_at |-> <<>>]

\* the decoded payload handed back as it came
UserDetails_Raw(data) == data

\* the dict returned by get_user_details on a 200
UserDetails(data) ==
    [name |-> Get(data, "name"),
     twitter_username |-> Get(data, "twitter_username"),
     github_username |-> Get(data, "github_username"),
     summary |-> Get(data, "summary"),
     location |-> Get(data, "location"),
     website_url |-> Get(data, "website_url"),
     joined_at |-> Get(data, "joined_at"),
     profile_image |-> Get(data, "profile_image")]

\* `if data is None: break`: a decoded list is never None
Falsy_IsNone(data) == FALSE

\* `if not data: break` / `if not articles: break`
Falsy(data) == data = <<>>

\* a routine without a 429 branch
RateLimited_Never(status) == FALSE

\* `elif response.status_code == 429`
RateLimited(status) == status = 429

\* response.raise_for_status(): raises HTTPError on a 4xx or 5xx status
RaisesForStatus(status) == status >= 400 /\ status < 600

\* badge.find(...).text fails (AttributeError) when a badge element lacks the
\* title or the description sub-element
ScrapeFails(html) ==
    \E i \in 1..Len(html.badges) :
        ~({"title", "description"} \subseteq DOMAIN html.badges[i])

\* the tuple returned by get_user_stats
UserStats(html) ==
    <<[i \in 1..Len(html.badges) |-> html.badges[i]["title"]],
      [i \in 1..Len(html.badges) |-> html.badges[i]["description"]],
      GetOr(html, "comments_written", 0),
      GetOr(html, "tags_followed", 0)>>

\* the argument of time.sleep in the 429 branch
SleepSeconds(r) == IF r = "get_github_user" THEN 60 ELSE 1

\* giving up one attempt early
MaxTriesExceeded_Early(t) == t = max_tries - 1

\* backoff: max_tries_exceeded = (tries == max_tries_value)
MaxTriesExceeded(t) == t = max_tries

-----------------------------------------------------------------------------
(* One call of a network-calling routine, request by request *)

Wrapped == Collectors \cup DetailLookups \cup {"get_user_stats"}

\* a server that may answer any request with any response
AnyServer == [stable |-> FALSE, pages |-> <<>>]

\* a server that answers the request for page p with the p-th of its pages,
\* the same one whenever it is asked
StableServer(pages) == [stable |-> TRUE, pages |-> pages]

\* the page with index p: an empty JSON array beyond the last page
PageOf(pages, p) == IF p \in 1..Len(pages) THEN pages[p] ELSE <<>>

\* what requests.get can hand back to routine r
Responses(r) ==
    IF server.stable
    THEN {Response(200, PageOf(server.pages, page))}
    ELSE {Response(200, b) : b \in Bodies(r)}
            \cup {Response(s, <<>>) : s \in {429} \cup ErrorStatuses}

\* the state in which a call of a wrapped routine begins
CallBegins ==
    /\ pc = "request"
    /\ tries = 1
    /\ page = 1
    /\ items = <<>>
    /\ lists = EmptyLists
    /\ result = NoValue
    /\ reqs = <<>>
    /\ resps = <<>>
    /\ sleeps = <<>>

Requesting(r) == routine = r /\ pc = "request" /\ Len(reqs) < MaxReq

Issue(resp) == reqs' = Append(reqs, page) /\ resps' = Append(resps, resp)

Return(v) == pc' = "returned" /\ result' = v

\* one pass of the while loop of load_articles_to_dataframe
load_articles_to_dataframe ==
    /\ Requesting("load_articles_to_dataframe")
    /\ \E resp \in Responses(routine) :
        /\ Issue(resp)
        /\ IF resp.status # 200
           THEN Return(FrameValue(DataFrame(items))) /\ UNCHANGED <<page, items>>
           ELSE IF Falsy(resp.body)
           THEN Return(FrameValue(DataFrame(items))) /\ UNCHANGED <<page, items>>
           ELSE /\ items' = Extend(items, ArticleRows(resp.body))
                /\ page' = NextPage(page)
                /\ UNCHANGED <<pc, result>>
    /\ UNCHANGED <<routine, server, tries, lists, sleeps, tableVars>>

\* one pass of the while loop of load_followers_to_dataframe
load_followers_to_dataframe ==
    /\ Requesting("load_followers_to_dataframe")
    /\ \E resp \in Responses(routine) :
        /\ Issue(resp)
        /\ IF resp.status # 200
           THEN Return(FrameValue(DataFrame(items))) /\ UNCHANGED <<page, items>>
           ELSE IF Falsy(resp.body)
           THEN Return(FrameValue(DataFrame(items))) /\ UNCHANGED <<page, items>>
           ELSE /\ items' = Extend(items, resp.body)
                /\ page' = NextPage(page)
                /\ UNCHANGED <<pc, result>>
    /\ UNCHANGED <<routine, server, tries, lists, sleeps, tableVars>>

\* a loop whose 429 branch moves on to the next page
get_user_articles_summary_SkipOn429 ==
    /\ Requesting("get_user_articles_summary")
    /\ \E resp \in Responses(routine) :
        /\ Issue(resp)
        /\ IF resp.status = 200
           THEN IF Falsy(resp.body)
                THEN /\ \E tag_order \in ListsOfSet(lists.unique_tags) :
                            Return(DictValue(SummaryDict(lists, tag_order)))
                     /\ UNCHANGED <<page, lists>>
                ELSE /\ lists' = AppendArticles(lists, resp.body)
                     /\ page' = NextPage(page)
                     /\ UNCHANGED <<pc, result>>
           ELSE IF RateLimited(resp.status)
           THEN pc' = "sleep" /\ page' = NextPage(page) /\ UNCHANGED <<lists, result>>
           ELSE Return(DictValue(FailedSummary(lists))) /\ UNCHANGED <<page, lists>>
    /\ UNCHANGED <<routine, server, tries, items, sleeps, tableVars>>

\* one pass of the while loop of get_user_articles_summary
get_user_articles_summary ==
    /\ Requesting("get_user_articles_summary")
    /\ \E resp \in Responses(routine) :
        /\ Issue(resp)
        /\ IF resp.status = 200
           THEN IF Falsy(resp.body)
                THEN /\ \E tag_order \in ListsOfSet(lists.unique_tags) :
                            Return(DictValue(SummaryDict(lists, tag_order)))
                     /\ UNCHANGED <<page, lists>>
                ELSE /\ lists' = AppendArticles(lists, resp.body)
                     /\ page' = NextPage(page)
                     /\ UNCHANGED <<pc, result>>
           ELSE IF RateLimited(resp.status)
           THEN pc' = "sleep" /\ UNCHANGED <<page, lists, result>>
           ELSE Return(DictValue(FailedSummary(lists))) /\ UNCHANGED <<page, lists>>
    /\ UNCHANGED <<routine, server, tries, items, sleeps, tableVars>>

\* one pass of the while loop of get_user_details
get_user_details ==
    /\ Requesting("get_user_details")
    /\ \E resp \in Responses(routine) :
        /\ Issue(resp)
        /\ IF resp.status = 200
           THEN Return(DictValue(UserDetails(resp.body)))
           ELSE IF RateLimited(resp.status)
           THEN pc' = "sleep" /\ UNCHANGED result
           ELSE Return(DictValue(EmptyDict))
    /\ UNCHANGED <<routine, server, tries, page, items, lists, sleeps, tableVars>>

\* one pass of the while loop of get_github_user
get_github_user ==
    /\ Requesting("get_github_user")
    /\ \E resp \in Responses(routine) :
        /\ Issue(resp)
        /\ IF resp.status = 200
           THEN Return(DictValue(resp.body))
           ELSE IF resp.status = 404
           THEN Return(NoneValue)
           ELSE IF RateLimited(resp.status)
           THEN pc' = "sleep" /\ UNCHANGED result
           ELSE Return(NoneValue)
    /\ UNCHANGED <<routine, server, tries, page, items, lists, sleeps, tableVars>>

\* time.sleep(...) of the 429 branch, then the loop goes round
time_sleep ==
    /\ pc = "sleep"
    /\ sleeps' = Append(sleeps, SleepSeconds(routine))
    /\ pc' = "request"
    /\ UNCHANGED <<routine, server, tries, page, items, lists, result, reqs, resps, tableVars>>

\* an except clause that never retries: the exception goes to the caller
Caught_NoRetry(exc) == pc' = "raised" /\ result' = Raised(exc)

\* backoff's except clause, entered with a requests.exceptions.RequestException
\* (or a subclass of it): it gives up (the exception goes to the caller) or goes
\* on to wait
Caught(exc) ==
    IF MaxTriesExceeded(tries)
    THEN pc' = "raised" /\ result' = Raised(exc)
    ELSE pc' = "backoff" /\ UNCHANGED result

\* an exception backoff does not catch goes to the caller at once
Uncaught(exc) == pc' = "raised" /\ result' = Raised(exc)

\* requests.get raises a RequestException (connection error, timeout, ...)
RequestException ==
    /\ routine \in Wrapped
    /\ pc = "request"
    /\ Len(reqs) < MaxReq
    /\ reqs' = Append(reqs, page)
    /\ Caught("RequestException")
    /\ UNCHANGED <<routine, server, tries, page, items, lists, resps, sleeps, tableVars>>

\* the body of get_user_stats
get_user_stats ==
    /\ Requesting("get_user_stats")
    /\ \E resp \in Responses(routine) :
        /\ Issue(resp)
        /\ IF RaisesForStatus(resp.status)
           THEN Caught("HTTPError")
           ELSE IF ScrapeFails(resp.body)
           THEN Uncaught("AttributeError")
           ELSE Return(TupleValue(UserStats(resp.body)))
    /\ UNCHANGED <<routine, server, tries, page, items, lists, sleeps, tableVars>>

\* a retry that resumes the interrupted call where it stopped
backoff_retry_Resume ==
    /\ pc = "backoff"
    /\ tries' = tries + 1
    /\ reqs' = <<>>
    /\ resps' = <<>>
    /\ sleeps' = <<>>
    /\ pc' = "request"
    /\ UNCHANGED <<routine, server, page, items, lists, result, tableVars>>

\* a retry that starts at page 1 again but keeps what was accumulated
backoff_retry_KeepItems ==
    /\ pc = "backoff"
    /\ tries' = tries + 1
    /\ page' = 1
    /\ reqs' = <<>>
    /\ resps' = <<>>
    /\ sleeps' = <<>>
    /\ pc' = "request"
    /\ UNCHANGED <<routine, server, items, lists, result, tableVars>>

\* backoff: time.sleep(seconds), tries += 1, and the routine is called again
backoff_retry ==
    /\ pc = "backoff"
    /\ tries' = tries + 1
    /\ page' = 1
    /\ items' = <<>>
    /\ lists' = EmptyLists
    /\ reqs' = <<>>
    /\ resps' = <<>>
    /\ sleeps' = <<>>
    /\ pc' = "request"
    /\ UNCHANGED <<routine, server, result, tableVars>>

-----------------------------------------------------------------------------
(* The enrichment routines, row by row.  The lookup made for a row is taken  *)
(* whole: it ends by returning one of the values the lookup can return, or   *)
(* by raising once backoff has given up.                                     *)

\* the values get_user_articles_summary returns for at most MaxArticles articles
SummaryReturns ==
    {DictValue(FailedSummary(EmptyLists))} \cup
    UNION {LET l == AppendArticles(EmptyLists, articles)
           IN  {DictValue(SummaryDict(l, tag_order)) :
                    tag_order \in ListsOfSet(l.unique_tags)} :
           articles \in SeqsOf(ArticleObjects, 0, MaxArticles)}

\* the ways a call of lookup r can end
Outcomes(r) ==
    {Raised("RequestException")} \cup
    CASE r = "get_user_details" ->
            {DictValue(UserDetails(b)) : b \in UserObjects} \cup {DictValue(EmptyDict)}
      [] r = "get_github_user" ->
            {DictValue(b) : b \in GitHubObjects} \cup {NoneValue}
      [] r = "get_user_stats" ->
            {TupleValue(UserStats(b)) : b \in {h \in ProfilePages : ~ScrapeFails(h)}}
                \cup {Raised("HTTPError"), Raised("AttributeError")}
      [] OTHER -> SummaryReturns

\* the rows load_followers_to_dataframe yields
FollowerRows == FollowerObjects

\* rows carrying the columns update_with_github reads
ProfileRows ==
    {[username |-> "u1", category |-> c, github_username |-> g] :
        c \in {"Connected Profiles", "Other"}, g \in {None, NaN, "", "gh1"}}

\* rows carrying the article_titles column update_followers_with_stats reads
ArticleTitleRows ==
    {[username |-> "u1", article_titles |-> <<"t1">>],
     [username |-> "u2", article_titles |-> <<>>]}

TablesFor(r) ==
    CASE r = "update_with_github" -> SeqsOf(ProfileRows, 0, MaxRows)
      [] r = "update_followers_with_stats" ->
            SeqsOf(ArticleTitleRows, 0, MaxRows) \cup SeqsOf(FollowerRows, 1, 1)
      [] OTHER -> SeqsOf(FollowerRows, 0, MaxRows)

\* the column lists of update_followers_with_articles, as first assigned
EmptyColumns ==
    [article_counts |-> <<>>, article_titles |-> <<>>, unique_tags |-> <<>>,
     tags |-> <<>>, article_reading_time_minutes |-> <<>>,
     article_comments_counts |-> <<>>, article_positive_reactions_counts |-> <<>>,
     article_published_at |-> <<>>]

Looked(i, key, out) == [index |-> i, key |-> key, out |-> out]

\* follower_info built from the details alone
FollowerInfo_DetailsOnly(row, user_details) == user_details

\* follower_info = row.to_dict(); follower_info.update(user_details)
FollowerInfo(row, user_details) == Update(row, user_details)

\* one pass of the for loop of load_users_with_details
load_users_with_details ==
    /\ routine = "load_users_with_details"
    /\ pc = "rows"
    /\ rowi < Len(followers_df)
    /\ LET row == followers_df[rowi + 1]
           username == row["username"]
       IN  \E out \in Outcomes("get_user_details") :
            /\ lookups' = Append(lookups, Looked(rowi + 1, username, out))
            /\ IF out.kind = "raise"
               THEN pc' = "raised" /\ result' = out /\ UNCHANGED <<work, rowi>>
               ELSE /\ work' = Append(work, FollowerInfo(row, out.val))
                    /\ rowi' = rowi + 1
                    /\ UNCHANGED <<pc, result>>
    /\ UNCHANGED <<routine, server, callVars, followers_df, df_in,
                   filter_connected_profiles>>

\* return pd.DataFrame(extended_data)
load_users_with_details_return ==
    /\ routine = "load_users_with_details"
    /\ pc = "rows"
    /\ rowi = Len(followers_df)
    /\ Return(FrameValue(DataFrame(work)))
    /\ UNCHANGED <<routine, server, callVars, tableVars>>

\* the appends made as insert(0, ...): the newest summary comes first
AppendSummary_Prepend(c, article_summary) ==
    [article_counts |-> <<article_summary["article_count"]>> \o c.article_counts,
     article_titles |-> <<article_summary["article_titles"]>> \o c.article_titles,
     unique_tags |-> <<article_summary["unique_tags"]>> \o c.unique_tags,
     tags |-> <<article_summary["tags"]>> \o c.tags,
     article_reading_time_minutes |->
         <<article_summary["article_reading_time_minutes"]>>
            \o c.article_reading_time_minutes,
     article_comments_counts |->
         <<article_summary["article_comments_counts"]>> \o c.article_comments_counts,
     article_positive_reactions_counts |->
         <<article_summary["article_positive_reactions_counts"]>>
            \o c.article_positive_reactions_counts,
     article_published_at |->
         <<article_summary["article_published_at"]>> \o c.article_published_at]

\* the appends made for one article_summary
AppendSummary(c, article_summary) ==
    [article_counts |-> Append(c.article_counts, article_summary["article_count"]),
     article_titles |-> Append(c.article_titles, article_summary["article_titles"]),
     unique_tags |-> Append(c.unique_tags, article_summary["unique_tags"]),
     tags |-> Append(c.tags, article_summary["tags"]),
     article_reading_time_minutes |->
         Append(c.article_reading_time_minutes,
                article_summary["article_reading_time_minutes"]),
     article_comments_counts |->
         Append(c.article_comments_counts, article_summary["article_comments_counts"]),
     article_positive_reactions_counts |->
         Append(c.article_positive_reactions_counts,
                article_summary["article_positive_reactions_counts"]),
     article_published_at |->
         Append(c.article_published_at, article_summary["article_published_at"])]

\* one pass of the for loop of update_followers_with_articles
update_followers_with_articles ==
    /\ routine = "update_followers_with_articles"
    /\ pc = "rows"
    /\ rowi < Len(followers_df)
    /\ LET username == followers_df[rowi + 1]["username"]
       IN  \E out \in Outcomes("get_user_articles_summary") :
            /\ lookups' = Append(lookups, Looked(rowi + 1, username, out))
            /\ IF out.kind = "raise"
               THEN pc' = "raised" /\ result' = out /\ UNCHANGED <<work, rowi>>
               ELSE /\ work' = AppendSummary(work, out.val)
                    /\ rowi' = rowi + 1
                    /\ UNCHANGED <<pc, result>>
    /\ UNCHANGED <<routine, server, callVars, followers_df, df_in,
                   filter_connected_profiles>>

\* the column assignments that follow the loop of update_followers_with_articles
WithArticleColumns(df, c) ==
    LET d1 == AssignColumn(df, "article_count", c.article_counts)
        d2 == AssignColumn(d1, "article_titles", c.article_titles)
        d3 == AssignColumn(d2, "unique_tags", c.unique_tags)
        d4 == AssignColumn(d3, "tags", c.tags)
        d5 == AssignColumn(d4, "article_reading_time_minutes",
                           c.article_reading_time_minutes)
        d6 == AssignColumn(d5, "article_comments_counts", c.article_comments_counts)
        d7 == AssignColumn(d6, "article_positive_reactions_counts",
                           c.article_positive_reactions_counts)
    IN  AssignColumn(d7, "article_published_at", c.article_published_at)

\* the columns assigned on a copy, the caller's table left as it was
update_followers_with_articles_return_OnCopy ==
    /\ routine = "update_followers_with_articles"
    /\ pc = "rows"
    /\ rowi = Len(followers_df)
    /\ Return(FrameValue(WithArticleColumns(followers_df, work)))
    /\ UNCHANGED <<routine, server, callVars, tableVars>>

\* followers_df[...] = ...; return followers_df
update_followers_with_articles_return ==
    /\ routine = "update_followers_with_articles"
    /\ pc = "rows"
    /\ rowi = Len(followers_df)
    /\ followers_df' = WithArticleColumns(followers_df, work)
    /\ Return(FrameValue(followers_df'))
    /\ UNCHANGED <<routine, server, callVars, df_in, work, rowi, filter_connected_profiles,
                   lookups>>

\* the column lists of update_followers_with_stats, as first assigned
EmptyStatsColumns ==
    [badges_list |-> <<>>, badge_descriptions_list |-> <<>>,
     comments_count_list |-> <<>>, tags_count_list |-> <<>>]

\* the appends made for one get_user_stats tuple
AppendStats(c, stats) ==
    [badges_list |-> Append(c.badges_list, stats[1]),
     badge_descriptions_list |-> Append(c.badge_descriptions_list, stats[2]),
     comments_count_list |-> Append(c.comments_count_list, stats[3]),
     tags_count_list |-> Append(c.tags_count_list, stats[4])]

\* one pass of the for loop of update_followers_with_stats; the zip(...) that
\* opens the loop raises KeyError on a table without the article_titles column
update_followers_with_stats ==
    /\ routine = "update_followers_with_stats"
    /\ pc = "rows"
    /\ rowi < Len(followers_df)
    /\ IF "article_titles" \notin DOMAIN followers_df[rowi + 1]
       THEN Uncaught("KeyError") /\ UNCHANGED <<work, rowi, lookups>>
       ELSE LET username == followers_df[rowi + 1]["username"]
            IN  \E out \in Outcomes("get_user_stats") :
                 /\ lookups' = Append(lookups, Looked(rowi + 1, username, out))
                 /\ IF out.kind = "raise"
                    THEN pc' = "raised" /\ result' = out /\ UNCHANGED <<work, rowi>>
                    ELSE /\ work' = AppendStats(work, out.val)
                         /\ rowi' = rowi + 1
                         /\ UNCHANGED <<pc, result>>
    /\ UNCHANGED <<routine, server, callVars, followers_df, df_in,
                   filter_connected_profiles>>

\* the column assignments that follow the loop of update_followers_with_stats
WithStatsColumns(df, c) ==
    LET d1 == AssignColumn(df, "badges", c.badges_list)
        d2 == AssignColumn(d1, "badge_descriptions", c.badge_descriptions_list)
        d3 == AssignColumn(d2, "comments_count", c.comments_count_list)
    IN  AssignColumn(d3, "tags_count", c.tags_count_list)

\* followers_df[...] = ...; return followers_df
update_followers_with_stats_return ==
    /\ routine = "update_followers_with_stats"
    /\ pc = "rows"
    /\ rowi = Len(followers_df)
    /\ followers_df' = WithStatsColumns(followers_df, work)
    /\ Return(FrameValue(followers_df'))
    /\ UNCHANGED <<routine, server, callVars, df_in, work, rowi, filter_connected_profiles,
                   lookups>>

\* the row mask of update_with_github
Selected(row, filter) ==
    IF filter
    THEN row["category"] = "Connected Profiles" /\ notna(row["github_username"])
    ELSE notna(row["github_username"])

\* the three columns update_with_github adds to its copy
GithubColumns ==
    [github_created_at |-> None, github_updated_at |-> None,
     github_public_repos |-> None]

\* github_users = followers_df[mask].copy() and the new columns: the rows kept,
\* each under its index label in followers_df
GithubUsers(df, filter) ==
    LET kept == SelectSeq([i \in 1..Len(df) |-> i], LAMBDA i : Selected(df[i], filter))
    IN  [j \in 1..Len(kept) |->
            [index |-> kept[j], row |-> Update(df[kept[j]], GithubColumns)]]

\* the lines of update_with_github before its loop
update_with_github_select ==
    /\ routine = "update_with_github"
    /\ pc = "select"
    /\ work' = GithubUsers(followers_df, filter_connected_profiles)
    /\ pc' = "rows"
    /\ UNCHANGED <<routine, server, callVars, result, followers_df, df_in, rowi,
                   filter_connected_profiles, lookups>>

\* `if user_data:`
Truthy(v) == v.kind = "dict" /\ DOMAIN v.val # {}

\* the three github_users.at[index, ...] assignments
WithGithubData(row, user_data) ==
    Update(row,
           [github_created_at |-> Get(user_data, "created_at"),
            github_updated_at |-> Get(user_data, "updated_at"),
            github_public_repos |-> Get(user_data, "public_repos")])

\* one pass of the for loop of update_with_github
update_with_github ==
    /\ routine = "update_with_github"
    /\ pc = "rows"
    /\ rowi < Len(work)
    /\ LET index == work[rowi + 1].index
           row == work[rowi + 1].row
           username == row["github_username"]
       IN  \E out \in Outcomes("get_github_user") :
            /\ lookups' = Append(lookups, Looked(index, username, out))
            /\ IF out.kind = "raise"
               THEN pc' = "raised" /\ result' = out /\ UNCHANGED <<work, rowi>>
               ELSE /\ work' =
                        IF Truthy(out)
                        THEN [work EXCEPT ![rowi + 1].row = WithGithubData(row, out.val)]
                        ELSE work
                    /\ rowi' = rowi + 1
                    /\ UNCHANGED <<pc, result>>
    /\ UNCHANGED <<routine, server, callVars, followers_df, df_in,
                   filter_connected_profiles>>

\* return github_users
update_with_github_return ==
    /\ routine = "update_with_github"
    /\ pc = "rows"
    /\ rowi = Len(work)
    /\ Return(FrameValue(work))
    /\ UNCHANGED <<routine, server, callVars, tableVars>>

-----------------------------------------------------------------------------

\* the state of the variables a routine does not use
CallIdle ==
    /\ tries = 1
    /\ page = 1
    /\ items = <<>>
    /\ lists = EmptyLists
    /\ result = NoValue
    /\ reqs = <<>>
    /\ resps = <<>>
    /\ sleeps = <<>>

TableIdle ==
    /\ followers_df = <<>>
    /\ df_in = <<>>
    /\ work = <<>>
    /\ rowi = 0
    /\ filter_connected_profiles = FALSE
    /\ lookups = <<>>

Init ==
    /\ server = AnyServer
    /\ routine \in Wrapped \cup Enrichments
    /\ IF routine \in Wrapped
       THEN CallBegins /\ TableIdle
       ELSE /\ CallIdle
            /\ followers_df \in TablesFor(routine)
            /\ df_in = followers_df
            /\ rowi = 0
            /\ lookups = <<>>
            /\ filter_connected_profiles \in
                    IF routine = "update_with_github" THEN BOOLEAN ELSE {FALSE}
            /\ work = CASE routine = "update_followers_with_articles" -> EmptyColumns
                        [] routine = "update_followers_with_stats" -> EmptyStatsColumns
                        [] OTHER -> <<>>
            /\ pc = IF routine = "update_with_github" THEN "select" ELSE "rows"

Next ==
    \/ load_articles_to_dataframe
    \/ load_followers_to_dataframe
    \/ get_user_articles_summary
    \/ get_user_details
    \/ get_github_user
    \/ get_user_stats
    \/ time_sleep
    \/ RequestException
    \/ backoff_retry
    \/ load_users_with_details
    \/ load_users_with_details_return
    \/ update_followers_with_articles
    \/ update_followers_with_articles_return
    \/ update_followers_with_stats
    \/ update_followers_with_stats_return
    \/ update_with_github_select
    \/ update_with_github
    \/ update_with_github_return

Spec == Init /\ [][Next]_vars

\* A paginated collector called against a server whose pages are fixed: every
\* request either raises a transport exception or is answered with status 200
\* and the page asked for.
StablePages(r) == SeqsOf(Bodies(r) \ {<<>>}, 0, MaxReq - 1)

StableInit ==
    /\ routine \in Collectors
    /\ server \in {StableServer(pages) : pages \in StablePages(routine)}
    /\ CallBegins
    /\ TableIdle

StableNext ==
    \/ load_articles_to_dataframe
    \/ load_followers_to_dataframe
    \/ get_user_articles_summary
    \/ RequestException
    \/ backoff_retry

StableSpec == StableInit /\ [][StableNext]_vars

-----------------------------------------------------------------------------
(* Properties *)

\* The row steps of the enrichment routines take a lookup whole.  This ties them
\* to the request-by-request model of the lookups: however a call of a lookup
\* ends there, Outcomes holds that ending (for summaries of at most MaxArticles
\* articles).
OutcomesCoverCalls ==
    (routine \in DetailLookups \cup {"get_user_stats", "get_user_articles_summary"}
        /\ pc \in {"returned", "raised"}) =>
        \/ /\ routine = "get_user_articles_summary"
           /\ pc = "returned"
           /\ result.val["article_count"] > MaxArticles
        \/ result \in Outcomes(routine)

LastResp == resps[Len(resps)]

RECURSIVE Concat(_)
Concat(ss) == IF ss = <<>> THEN <<>> ELSE Head(ss) \o Concat(Tail(ss))

\* the items of the 200 pages of the current attempt, page by page
Served ==
    LET ok == SelectSeq(resps, LAMBDA r : r.status = 200)
    IN  Concat([i \in 1..Len(ok) |-> ok[i].body])

Summary == "get_user_articles_summary"

SummaryListKeys ==
    {"article_titles", "tags", "article_reading_time_minutes",
     "article_comments_counts", "article_positive_reactions_counts",
     "article_published_at"}

\* number of entries of a collector's return value
EntryCount(v) == IF routine = Summary THEN v.val["article_count"] ELSE Len(v.val)

\* entry i of a collector's return value is the entry made from `item`
EntryIs(v, i, item) ==
    CASE routine = "load_articles_to_dataframe" ->
            /\ v.val[i]["title"] = item["title"]
            /\ v.val[i]["created_at"] = item["published_at"]
            /\ v.val[i]["public_reactions_count"] = item["public_reactions_count"]
      [] routine = "load_followers_to_dataframe" ->
            /\ DOMAIN item \subseteq DOMAIN v.val[i]
            /\ \A c \in DOMAIN item : v.val[i][c] = item[c]
      [] OTHER ->
            /\ \A k \in SummaryListKeys : i \in 1..Len(v.val[k])
            /\ v.val["article_titles"][i] = Get(item, "title")
            /\ v.val["tags"][i] = GetOr(item, "tag_list", <<>>)
            /\ v.val["article_reading_time_minutes"][i] = Get(item, "reading_time_minutes")
            /\ v.val["article_comments_counts"][i] = Get(item, "comments_count")
            /\ v.val["article_positive_reactions_counts"][i] =
                    Get(item, "positive_reactions_count")
            /\ v.val["article_published_at"][i] = Get(item, "published_at")

\* a collector's return value holds exactly `served`, in that order
HoldsExactly(v, served) ==
    /\ EntryCount(v) = Len(served)
    /\ \A i \in 1..Len(served) : EntryIs(v, i, served[i])
    /\ routine = Summary => \A k \in SummaryListKeys : Len(v.val[k]) = Len(served)

\* the first attempt, and no request of it has raised
FirstAttemptNoException == tries = 1 /\ Len(reqs) = Len(resps)

\* the responses so far: 200 with items, ..., 200 with items, 200 with no items
PagesThenEmpty ==
    /\ resps # <<>>
    /\ \A i \in 1..Len(resps) : resps[i].status = 200
    /\ \A i \in 1..(Len(resps) - 1) : resps[i].body # <<>>
    /\ LastResp.body = <<>>

\* C1: a paginated collector answered k pages of items and then an empty page,
\* with no transport exception, has asked for pages 1, 2, ..., k+1 in that order
\* and returns exactly the items of the k pages, page by page and in page order.
C1_PagesInOrder ==
    (routine \in Collectors /\ FirstAttemptNoException /\ PagesThenEmpty) =>
        /\ pc = "returned"
        /\ reqs = [i \in 1..Len(resps) |-> i]
        /\ HoldsExactly(result, Served)

C1_Witness ==
    /\ routine = "load_articles_to_dataframe"
    /\ FirstAttemptNoException
    /\ PagesThenEmpty
    /\ pc = "returned"
    /\ Len(resps) = 3
    /\ Len(resps[1].body) = 2
    /\ Len(resps[2].body) = 1
    /\ resps[1].body[1] # resps[1].body[2]

\* C2: a paginated collector whose first response is 200 with an empty page
\* returns an empty result, having issued exactly one request.
C2_EmptyFirstPage ==
    (routine \in Collectors /\ tries = 1 /\ resps # <<>>
        /\ resps[1] = Response(200, <<>>)) =>
        /\ pc = "returned"
        /\ reqs = <<1>>
        /\ HoldsExactly(result, <<>>)
        /\ routine = Summary => result.val["unique_tags"] = <<>>

C2_Witness ==
    /\ routine \in Collectors
    /\ tries = 1
    /\ resps = <<Response(200, <<>>)>>
    /\ pc = "returned"

DetailKeys ==
    {"name", "twitter_username", "github_username", "summary", "location",
     "website_url", "joined_at", "profile_image"}

\* what a lookup is to return for the decoded 200 payload `data`
FromPayload(data) ==
    IF routine = "get_user_details"
    THEN DictValue([k \in DetailKeys |-> IF k \in DOMAIN data THEN data[k] ELSE None])
    ELSE DictValue(data)

\* the responses so far: 429, ..., 429, 200
RateLimitsThenOk ==
    /\ resps # <<>>
    /\ \A i \in 1..(Len(resps) - 1) : resps[i].status = 429
    /\ LastResp.status = 200

\* C3: a rate-limit-aware lookup answered k times 429 and then 200 has returned
\* the result made from that 200 payload after exactly k+1 requests and exactly
\* k sleeps (of 1 s for dev.to, 60 s for GitHub); none follows the 200.
C3_RateLimitThenOk ==
    (routine \in DetailLookups /\ FirstAttemptNoException /\ RateLimitsThenOk) =>
        /\ pc = "returned"
        /\ result = FromPayload(LastResp.body)
        /\ Len(reqs) = Len(resps)
        /\ Len(sleeps) = Len(resps) - 1
        /\ \A i \in 1..Len(sleeps) :
                sleeps[i] = IF routine = "get_github_user" THEN 60 ELSE 1

C3_Witness ==
    /\ routine = "get_user_details"
    /\ FirstAttemptNoException
    /\ resps = <<Response(429, <<>>), Response(429, <<>>), Response(200, User2)>>
    /\ sleeps = <<1, 1>>
    /\ pc = "returned"

\* C4: every value get_user_articles_summary returns, on the normal and on the
\* error path, has all six per-article lists of length article_count, has at
\* index i of each list the field of one and the same article, and has in
\* unique_tags exactly the tags of the lists in tags.
C4_ParallelLists ==
    (routine = Summary /\ pc = "returned") =>
        LET s == result.val
        IN  /\ \A k \in SummaryListKeys : Len(s[k]) = s["article_count"]
            /\ Elems(s["unique_tags"]) =
                    UNION {Elems(s["tags"][i]) : i \in 1..Len(s["tags"])}
            /\ \/ s["article_count"] = 0
               \/ HoldsExactly(result, Served)

C4_Witness ==
    /\ routine = Summary
    /\ pc = "returned"
    /\ result.val["article_count"] = 2
    /\ result.val["article_titles"] = <<"t2", "t1">>
    /\ result.val["unique_tags"] = <<"ai", "py">>
    /\ \E i \in 1..Len(resps) : resps[i].status = 429

C4_WitnessErrorPath ==
    /\ routine = Summary
    /\ pc = "returned"
    /\ LastResp.status = 500
    /\ lists.article_titles # <<>>

\* C5: backoff makes at most 5 attempts of a wrapped routine, and the transport
\* exception reaches the caller only when the 5th attempt has raised: never
\* after fewer attempts, and no 6th attempt is made.
C5_FiveAttempts ==
    routine \in Wrapped =>
        /\ tries \in 1..5
        /\ (pc = "raised" /\ result.exc \in {"RequestException", "HTTPError"}) =>
                tries = 5
        /\ pc = "backoff" => tries < 5

C5_Witness ==
    /\ routine \in Wrapped
    /\ pc = "raised"
    /\ result = Raised("RequestException")
    /\ tries = 5
    /\ Len(reqs) = Len(resps) + 1


HasHandle(row) == notna(row["github_username"]) /\ row["github_username"] # ""

Connected(row) == row["category"] = "Connected Profiles"

\* C6: with filter_connected_profiles=True, update_with_github looks up and
\* returns only rows of category "Connected Profiles" with a non-empty GitHub
\* handle; a row whose handle is missing or empty, or whose category differs,
\* is neither looked up nor in the output.
C6_OnlyConnectedWithHandle ==
    (routine = "update_with_github" /\ filter_connected_profiles) =>
        /\ \A n \in 1..Len(lookups) :
                Connected(df_in[lookups[n].index]) /\ HasHandle(df_in[lookups[n].index])
        /\ pc = "returned" =>
            /\ \A j \in 1..Len(result.val) :
                    Connected(result.val[j].row) /\ HasHandle(result.val[j].row)
            /\ \A i \in 1..Len(df_in) :
                    ~(Connected(df_in[i]) /\ HasHandle(df_in[i])) =>
                        \A j \in 1..Len(result.val) : result.val[j].index # i

\* What the filter does guarantee: the rows looked up and returned are exactly
\* those of category "Connected Profiles" whose handle is not None/NaN.
C6_OnlyConnectedNotNa ==
    (routine = "update_with_github" /\ filter_connected_profiles) =>
        /\ \A n \in 1..Len(lookups) :
                /\ Connected(df_in[lookups[n].index])
                /\ notna(df_in[lookups[n].index]["github_username"])
        /\ pc = "returned" =>
            \A i \in 1..Len(df_in) :
                (Connected(df_in[i]) /\ notna(df_in[i]["github_username"]))
                    <=> \E j \in 1..Len(result.val) : result.val[j].index = i

SummaryColumns ==
    {"article_titles", "unique_tags", "tags", "article_reading_time_minutes",
     "article_comments_counts", "article_positive_reactions_counts",
     "article_published_at"}

\* C7: update_followers_with_articles makes its lookups in row order, one per
\* row and for that row's username, and returns the n input rows in their order,
\* row i carrying as article_count and as every other added column the value of
\* the summary returned by the lookup made for row i.
C7_ColumnsAlignedWithRows ==
    routine = "update_followers_with_articles" =>
        /\ \A n \in 1..Len(lookups) :
                /\ n \in 1..Len(df_in)
                /\ lookups[n].index = n
                /\ lookups[n].key = df_in[n]["username"]
        /\ pc = "returned" =>
            /\ Len(result.val) = Len(df_in)
            /\ Len(lookups) = Len(df_in)
            /\ \A i \in 1..Len(df_in) :
                /\ \A c \in DOMAIN df_in[i] : result.val[i][c] = df_in[i][c]
                /\ result.val[i]["article_count"] = lookups[i].out.val["article_count"]
                /\ \A c \in SummaryColumns : result.val[i][c] = lookups[i].out.val[c]

C7_Witness ==
    /\ routine = "update_followers_with_articles"
    /\ pc = "returned"
    /\ Len(df_in) = 2
    /\ df_in[1]["username"] = "u2"
    /\ df_in[2]["username"] = "u1"
    /\ result.val[1]["article_count"] = 2
    /\ result.val[2]["article_count"] = 0

\* the responses so far: 200 with items, ..., 200 with items, then a status that
\* is neither 200 nor 429
PagesThenError ==
    /\ resps # <<>>
    /\ \A i \in 1..(Len(resps) - 1) : resps[i].status = 200 /\ resps[i].body # <<>>
    /\ LastResp.status \in ErrorStatuses

\* C8 as stated: a paginated collector answered pages 1..p-1 with items and
\* page p with a status that is neither success nor 429 returns, without
\* raising, exactly the items of pages 1..p-1 in order.
C8_PartialOnError ==
    (routine \in Collectors /\ FirstAttemptNoException /\ PagesThenError) =>
        /\ pc = "returned"
        /\ HoldsExactly(result, Served)

\* C8 as amended: in that case load_articles_to_dataframe and
\* load_followers_to_dataframe return, without raising, exactly the items of
\* pages 1..p-1 in order, and get_user_articles_summary returns, without
\* raising, the empty summary (article_count 0 and every list empty) whatever
\* it had accumulated.
C8_PartialOrEmptyOnError ==
    (routine \in Collectors /\ FirstAttemptNoException /\ PagesThenError) =>
        /\ pc = "returned"
        /\ IF routine = Summary
           THEN HoldsExactly(result, <<>>) /\ result.val["unique_tags"] = <<>>
           ELSE HoldsExactly(result, Served)

C8_Witness ==
    /\ routine = Summary
    /\ FirstAttemptNoException
    /\ PagesThenError
    /\ Len(resps) = 3
    /\ Len(lists.article_titles) = 3
    /\ pc = "returned"
    /\ result.val["article_count"] = 0

C8_WitnessLoaders ==
    /\ routine = "load_followers_to_dataframe"
    /\ FirstAttemptNoException
    /\ PagesThenError
    /\ Len(resps) = 3
    /\ pc = "returned"
    /\ Len(result.val) = 3

\* every response of the current attempt is a 429, and no request of it raised
OnlyRateLimits ==
    /\ resps # <<>>
    /\ Len(reqs) = Len(resps)
    /\ \A i \in 1..Len(resps) : resps[i].status = 429

\* while every answer is 429 the lookup has neither returned nor raised, and
\* has slept its fixed interval once per answer
StallsWhileRateLimited ==
    (routine \in DetailLookups /\ OnlyRateLimits) =>
        /\ pc \in {"sleep", "request"}
        /\ result = NoValue
        /\ Len(sleeps) = Len(resps) - (IF pc = "sleep" THEN 1 ELSE 0)
        /\ \A i \in 1..Len(sleeps) :
                sleeps[i] = IF routine = "get_github_user" THEN 60 ELSE 1

\* a 429 answer leads to the sleep and leaves backoff's attempt counter alone;
\* the sleep leads to the next request
RateLimitStep ==
    routine \in DetailLookups =>
        /\ (Len(resps') = Len(resps) + 1 /\ resps'[Len(resps')].status = 429) =>
                (pc' = "sleep" /\ tries' = tries)
        /\ pc = "sleep" =>
                (pc' = "request" /\ tries' = tries /\ Len(sleeps') = Len(sleeps) + 1)

\* C9: a per-entity lookup answered 429 to every request neither returns nor
\* raises: it alternates request and fixed sleep for as long as the 429s go on,
\* and no 429 uses up one of backoff's 5 attempts.
C9_RateLimitNeverEnds == [](StallsWhileRateLimited) /\ [][RateLimitStep]_vars

C9_Witness ==
    /\ routine = "get_github_user"
    /\ OnlyRateLimits
    /\ tries = 1
    /\ Len(resps) = 3
    /\ sleeps = <<60, 60, 60>>
    /\ pc = "request"

\* C10: a per-entity lookup answered with a status that is neither 200 nor 429
\* returns at once, without raising and without a further request, {} from
\* get_user_details and None from get_github_user; load_users_with_details and
\* update_with_github keep the row of such a lookup, its original fields
\* unchanged, and go on to the next row.
C10_ErrorStatusKeepsRow ==
    /\ (routine \in DetailLookups /\ resps # <<>> /\ LastResp.status \in ErrorStatuses) =>
            /\ pc = "returned"
            /\ Len(reqs) = Len(resps)
            /\ result = IF routine = "get_user_details"
                        THEN DictValue(EmptyDict) ELSE NoneValue
    /\ routine = "load_users_with_details" =>
            \A n \in 1..Len(lookups) :
                lookups[n].out = DictValue(EmptyDict) =>
                    /\ rowi >= n
                    /\ work[n] = df_in[n]
                    /\ pc = "returned" =>
                        /\ Len(result.val) = Len(df_in)
                        /\ \A c \in DOMAIN df_in[n] : result.val[n][c] = df_in[n][c]
    /\ routine = "update_with_github" =>
            \A n \in 1..Len(lookups) :
                lookups[n].out = NoneValue =>
                    /\ rowi >= n
                    /\ work[n].index = lookups[n].index
                    /\ \A c \in DOMAIN df_in[work[n].index] :
                            work[n].row[c] = df_in[work[n].index][c]
                    /\ \A c \in DOMAIN GithubColumns : work[n].row[c] = None
                    /\ pc = "returned" => result.val[n] = work[n]

C10_Witness ==
    /\ routine = "load_users_with_details"
    /\ pc = "returned"
    /\ Len(df_in) = 2
    /\ lookups[1].out = DictValue(EmptyDict)
    /\ lookups[2].out = DictValue(UserDetails(User1))
    /\ result.val[1]["name"] = df_in[1]["name"]
    /\ result.val[1]["location"] = NaN

C10_WitnessLookup ==
    /\ routine = "get_github_user"
    /\ resps = <<Response(429, <<>>), Response(500, <<>>)>>
    /\ pc = "returned"
    /\ result = NoneValue


\* C11 as stated: backoff re-attempts a wrapped routine only after a request
\* that raised without a response; a response with an HTTP error status never
\* leads to a retry, and get_user_stats answered with a non-success status
\* raises to its caller at once.
C11_NoRetryOnStatus ==
    /\ (routine \in Wrapped /\ pc = "backoff") => Len(reqs) = Len(resps) + 1
    /\ (routine = "get_user_stats" /\ resps # <<>> /\ LastResp.status # 200) =>
            /\ pc = "raised"
            /\ tries = 1 => reqs = <<1>>

\* C11 as amended: in the five JSON routines a response with an HTTP error
\* status never leads to a retry by backoff, which re-attempts them only after a
\* request that raised without a response.  In get_user_stats a 4xx/5xx status
\* makes raise_for_status() raise HTTPError, a RequestException, and backoff
\* retries it like a transport exception: the routine is called again while
\* fewer than 5 attempts were made, and the HTTPError reaches the caller only
\* from the 5th attempt.
C11_StatusRetriedOnlyInStats ==
    /\ (routine \in Collectors \cup DetailLookups /\ pc = "backoff") =>
            Len(reqs) = Len(resps) + 1
    /\ (routine \in Collectors \cup DetailLookups /\ resps # <<>>
            /\ Len(reqs) = Len(resps) /\ LastResp.status # 200) =>
            pc \in {"returned", "sleep", "request"}
    /\ (routine = "get_user_stats" /\ resps # <<>> /\ LastResp.status # 200) =>
            /\ Len(reqs) = Len(resps)
            /\ IF tries < 5
               THEN pc = "backoff" /\ result = NoValue
               ELSE pc = "raised" /\ result = Raised("HTTPError")

C11_Witness ==
    /\ routine = "get_user_stats"
    /\ tries = 5
    /\ resps = <<Response(404, <<>>)>>
    /\ pc = "raised"
    /\ result = Raised("HTTPError")


\* C12 as stated: when the request for page p of a paginated collector raised
\* a transport exception and backoff retries, the routine goes on with the
\* same page and the items accumulated so far.
C12_RetrySamePage ==
    [][(routine \in Collectors /\ pc = "backoff") =>
            (page' = page /\ items' = items /\ lists' = lists)]_vars

\* C12 as amended: when the request for page p of a paginated collector raised
\* a transport exception and attempts remain, backoff calls the routine again
\* from its first line: the attempt counter grows by one, the page counter is 1
\* again, the accumulators are empty, and the next request issued is the one
\* for page 1, whatever p was.
C12_RetryFromFirstPage ==
    /\ [][(routine \in Collectors /\ pc = "backoff") =>
            /\ pc' = "request"
            /\ tries' = tries + 1
            /\ page' = 1
            /\ items' = <<>>
            /\ lists' = EmptyLists
            /\ reqs' = <<>>]_vars
    /\ [][(routine \in Collectors /\ reqs = <<>> /\ reqs' # <<>>) =>
            reqs' = <<1>>]_vars
    /\ []((routine \in Collectors /\ pc = "backoff") =>
            (tries < max_tries /\ reqs # <<>> /\ reqs[Len(reqs)] = page))

C12_Witness ==
    /\ routine = "load_articles_to_dataframe"
    /\ pc = "backoff"
    /\ tries = 1
    /\ page = 2
    /\ reqs = <<1, 2>>
    /\ items = ArticleRows(<<Article1, Article2>>)


\* C14: a paginated collector called against a server whose pages are fixed
\* returns, whenever it returns, exactly the items of the server's pages, each
\* once, page by page and in page order, however many transport exceptions
\* interrupted the pagination and wherever they fell; the exception reaches the
\* caller only when the 5th attempt raised.
C14_RetriesLoseNothing ==
    /\ (routine \in Collectors /\ server.stable /\ pc = "returned") =>
            HoldsExactly(result, Concat(server.pages))
    /\ (routine \in Collectors /\ server.stable /\ pc = "raised") =>
            tries = max_tries

C14_Witness ==
    /\ routine = "load_followers_to_dataframe"
    /\ server = StableServer(<<(<<Follower1, Follower2>>), (<<Follower1>>)>>)
    /\ tries = 4
    /\ pc = "returned"
    /\ reqs = <<1, 2, 3>>
    /\ Len(result.val) = 3


\* C13 as stated: an enrichment routine that has returned left the table it was
\* handed with the columns and values it had when the call began.
C13_InputUnchanged ==
    (routine \in Enrichments /\ pc = "returned") => followers_df = df_in

StatsColumns == {"badges", "badge_descriptions", "comments_count", "tags_count"}

AddedColumns ==
    IF routine = "update_followers_with_articles"
    THEN SummaryColumns \cup {"article_count"}
    ELSE StatsColumns

\* C13 as amended: load_users_with_details and update_with_github never change
\* the table they are handed and return a table of their own.
\* update_followers_with_articles and update_followers_with_stats leave the
\* table as it was until their loop is over (so also when a lookup raises), then
\* assign their columns on the caller's table itself and return that same
\* table: after the call the input has its rows in their order and its earlier
\* columns with their values, and the added columns besides.
C13_TwoRoutinesAssignInPlace ==
    /\ routine \in {"load_users_with_details", "update_with_github"} =>
            followers_df = df_in
    /\ (routine \in {"update_followers_with_articles", "update_followers_with_stats"}
            /\ pc # "returned") => followers_df = df_in
    /\ (routine \in {"update_followers_with_articles", "update_followers_with_stats"}
            /\ pc = "returned") =>
            /\ result = FrameValue(followers_df)
            /\ Len(followers_df) = Len(df_in)
            /\ \A i \in 1..Len(df_in) :
                /\ DOMAIN followers_df[i] = DOMAIN df_in[i] \cup AddedColumns
                /\ \A c \in DOMAIN df_in[i] \ AddedColumns :
                        followers_df[i][c] = df_in[i][c]

C13_Witness ==
    /\ routine = "update_followers_with_articles"
    /\ pc = "returned"
    /\ Len(df_in) = 2
    /\ followers_df # df_in
    /\ "article_count" \notin DOMAIN df_in[1]
    /\ "article_count" \in DOMAIN followers_df[1]
    /\ result = FrameValue(followers_df)

C13_WitnessCopy ==
    /\ routine = "update_with_github"
    /\ pc = "returned"
    /\ Len(df_in) = 2
    /\ Len(result.val) = 1
    /\ "github_created_at" \in DOMAIN result.val[1].row
    /\ followers_df = df_in


\* the responses so far are 200 with items or 429, and the last is 200 with
\* no items
PagesAndRateLimitsThenEmpty ==
    /\ resps # <<>>
    /\ Len(reqs) = Len(resps)
    /\ \A i \in 1..(Len(resps) - 1) :
            \/ resps[i].status = 429
            \/ resps[i].status = 200 /\ resps[i].body # <<>>
    /\ LastResp = Response(200, <<>>)

\* within an attempt of get_user_articles_summary the request that follows a
\* 429 asks for the page the 429 answered; during the sleep the accumulators
\* hold what the 200 pages so far gave; a run of pages and 429s ended by an
\* empty page returns the items of the 200 pages, each once and in order
SamePageAfterRateLimit ==
    routine = Summary =>
        /\ \A i \in 1..(Len(reqs) - 1) :
                (i <= Len(resps) /\ resps[i].status = 429) => reqs[i + 1] = reqs[i]
        /\ pc = "sleep" =>
                /\ LastResp.status = 429
                /\ page = reqs[Len(reqs)]
                /\ lists = AppendArticles(EmptyLists, Served)
        /\ PagesAndRateLimitsThenEmpty =>
                /\ pc = "returned"
                /\ HoldsExactly(result, Served)

\* the step that receives a 429 and the sleep that follows it leave the page
\* counter and every accumulator list as they were
RateLimitKeepsLocals ==
    routine = Summary =>
        /\ (Len(resps') = Len(resps) + 1 /\ resps'[Len(resps')].status = 429) =>
                (pc' = "sleep" /\ page' = page /\ lists' = lists /\ tries' = tries)
        /\ pc = "sleep" =>
                (pc' = "request" /\ page' = page /\ lists' = lists /\ tries' = tries)

\* C15: in get_user_articles_summary a 429 answer to the request for page p
\* changes neither the page counter nor an accumulator list; after the sleep the
\* next request asks for page p again, and the items of the pages before p are
\* in the returned summary exactly once.
C15_RateLimitKeepsPage == [](SamePageAfterRateLimit) /\ [][RateLimitKeepsLocals]_vars

C15_Witness ==
    /\ routine = Summary
    /\ tries = 1
    /\ resps = <<Response(200, <<Article1>>), Response(429, <<>>), Response(200, <<>>)>>
    /\ reqs = <<1, 2, 2>>
    /\ sleeps = <<1>>
    /\ pc = "returned"
    /\ result.val["article_count"] = 1

====
